---- MODULE Spec2Model ----
(***************************************************************************)
(* The evaluation notebook demo.ipynb as a state machine.                  *)
(*                                                                         *)
(* The state is the kernel's namespace (the notebook's global variables),  *)
(* the position of the cell being executed, the exception that ended it,   *)
(* the calls made to the imported collaborators for the layout in progress *)
(* and the lines of the last report.  One action per statement group of a  *)
(* code cell; an uncaught exception ends the execution of the cell (the    *)
(* notebook has no try/except), leaving the namespace as the cell left it. *)
(* Cells may be executed in any order and any number of times.             *)
(*                                                                         *)
(* A name that is not bound yet holds a value of its type and is absent    *)
(* from the set bound; reading it raises NameError.                        *)
(*                                                                         *)
(* Numbers: rewards are integers; np.mean is kept as an exact fraction     *)
(* [num, den]; np.std is kept as the exact fraction under the square root  *)
(* [sqnum, sqden], that is std = sqrt(sqnum / sqden).                      *)
(*                                                                         *)
(* Not kept: the progress lines the evaluation cells print, the headers of *)
(* the tables, the throwaway name _ and the content of the file system     *)
(* (show_gif is kept as the path it is asked to show).                     *)
(***************************************************************************)
EXTENDS Integers, Sequences, FiniteSets, TLC

VARIABLES
  bound,                        \* names bound in the kernel namespace
  test_layouts, policy_weights, value_weights, N_RUNS,
  env, obs_dim, act_dim, agent,
  results_greedy_cramped_room, results_greedy, results_sampling,
  layout, gif_path, reward, rewards, i, mean_reward, std_reward, mean, std,
  cell,                         \* the cell being executed, or executed last
  pc,                           \* position in that cell; "idle" between cells
  k,                            \* position of the iterator over test_layouts
  it,                           \* position of the iterator over range(N_RUNS)
  err,                          \* exception that ended the last execution
  nexec,                        \* number of cell executions started
  calls,                        \* calls made for the layout being evaluated
  out                           \* lines emitted by the last report cell

cfgv  == <<test_layouts, policy_weights, value_weights, N_RUNS>>
objv  == <<env, obs_dim, act_dim, agent>>
resv  == <<results_greedy_cramped_room, results_greedy, results_sampling>>
statv == <<mean_reward, std_reward>>
repv  == <<mean, std>>
vars  == <<bound, cfgv, objv, resv, layout, gif_path, reward, rewards, i,
           statv, repv, cell, pc, k, it, err, nexec, calls, out>>

----------------------------------------------------------------------------
(* Bounds of the model *)

\* cell executions explored from a fresh kernel
MaxExec == 3
\* runs at the end of a layout's run loop whose reward is drawn from Rewards;
\* the runs before them return the usual reward
VaryingRuns == 1
\* longest reward list given to the statistics on their own
MaxRuns == 10

\* total rewards an episode can return
Rewards == {2, 20}
UsualReward == CHOOSE r \in Rewards : \A q \in Rewards : r <= q
\* observation / action dimensions an environment can report
ObsDims == {96}
ActDims == {6}

None == "<None>"

----------------------------------------------------------------------------
(* Arithmetic helpers *)

RECURSIVE SumSeq(_)
SumSeq(s) == IF s = <<>> THEN 0 ELSE Head(s) + SumSeq(Tail(s))

RECURSIVE GCD(_, _)
GCD(a, b) == IF b = 0 THEN a ELSE GCD(b, a % b)

Reduce(n, d) == LET g == GCD(n, d) IN IF g = 0 THEN <<n, d>> ELSE <<n \div g, d \div g>>

\* np.mean(rewards): sum of the elements over their number
np_mean(r) == [num |-> SumSeq(r), den |-> Len(r)]

\* np.std(rewards): default ddof = 0; the mean of the squared deviations from
\* the mean, under a square root.  With m = S/n, (x - m)^2 = (n*x - S)^2 / n^2.
Ddof == 0
SqDeviations(r) ==
  LET n == Len(r)
      S == SumSeq(r)
  IN  [j \in 1..n |-> (n * r[j] - S) * (n * r[j] - S)]
np_std_ddof1(r) ==
  LET n == Len(r)
      f == Reduce(SumSeq(SqDeviations(r)), n * n * (n - 1))
  IN  [sqnum |-> f[1], sqden |-> f[2]]
np_std(r) ==
  LET n == Len(r)
      f == Reduce(SumSeq(SqDeviations(r)), n * n * (n - Ddof))
  IN  [sqnum |-> f[1], sqden |-> f[2]]

----------------------------------------------------------------------------
(* The collaborators the notebook imports *)

\* GeneralizedOvercooked([layout]): an environment for one layout; the
\* observation and action dimensions are the environment's own.
GeneralizedOvercooked(l, d, a, id) ==
  [id |-> id, layout |-> l, obs_dim |-> d, act_dim |-> a]

\* PPOAgent(obs_dim, act_dim, ...) followed by the two dummy forward passes:
\* an agent of these dimensions whose networks hold their initial weights.
PPOAgent(d, a, id) ==
  [id |-> id, obs_dim |-> d, act_dim |-> a, policy |-> "", value |-> ""]

NoEnv   == GeneralizedOvercooked("", 0, 0, <<0, 0>>)
NoAgent == PPOAgent(0, 0, <<0, 0>>)
NoMean  == [num |-> 0, den |-> 1]
NoStd   == [sqnum |-> 0, sqden |-> 1]

\* show_gif(gif_path): the image at gif_path, or "GIF not found: <gif_path>";
\* either way the line is about the file at gif_path
show_gif(path) == [kind |-> "show_gif", text |-> path]

----------------------------------------------------------------------------
(* Values the cells compute *)

TestLayouts == <<"cramped_room", "asymmetric_advantages", "forced_coordination">>
PolicyWeights == "generalization/multilayout_checkpoints/policy_PPO_deep_shaping-decay-20000multilayout_run_20000_final.weights.h5"
ValueWeights == "generalization/multilayout_checkpoints/value_PPO_deep_shaping-decay-20000multilayout_run_20000_final.weights.h5"
PolicyWeightsCrampedRoom == "cramped_room/checkpoints/policy_PPO_deep_shaping-decay-15000new_setup_15000_full_log_2_final.weights.h5"
ValueWeightsCrampedRoom == "cramped_room/checkpoints/value_PPO_deep_shaping-decay-15000new_setup_15000_full_log_2_final.weights.h5"

SingleGifPath == "demo/cramped_room/cramped_room_eval_greedy.gif"
GreedyGifPath(l) == "demo/generalization/" \o l \o "_eval_greedy.gif"
\* gif_path of sampled run ii, and its save_gif argument
SamplingGifPath(l, ii) ==
  IF ii = 0 THEN "demo/generalization/" \o l \o "_eval_sampling.gif" ELSE None
SamplingSaveGifAlways(ii) == TRUE
SamplingSaveGif(ii) == (ii = 0)
\* the path stored in the entry of results_sampling
SamplingResultPath(l) == "generalization/" \o l \o "/eval_sampling.gif"

\* identity of an object constructed now: the execution and the iteration of
\* the layout loop it is constructed in
NewId == <<nexec, k>>

\* the layout the cell being executed is evaluating
TargetCramped == "cramped_room"
Target == IF cell = "single" THEN "cramped_room" ELSE layout
PolicyPath == IF cell = "single" THEN PolicyWeightsCrampedRoom ELSE policy_weights
ValuePath  == IF cell = "single" THEN ValueWeightsCrampedRoom ELSE value_weights

\* "{:.2f}" of a number, as the number of hundredths shown
FmtInt(r) == 100 * r
FmtMean(m) == (200 * m.num + m.den) \div (2 * m.den)
MaxReward == CHOOSE r \in Rewards : \A q \in Rewards : r >= q
\* the largest c in lo..hi with c - 1/2 <= 100 * sqrt(sqnum / sqden), by bisection
RECURSIVE NearestHundredth(_, _, _)
NearestHundredth(s, lo, hi) ==
  IF lo = hi THEN lo
  ELSE LET c == (lo + hi + 1) \div 2
       IN  IF (2 * c - 1) * (2 * c - 1) * s.sqden <= 40000 * s.sqnum
             THEN NearestHundredth(s, c, hi)
             ELSE NearestHundredth(s, lo, c - 1)
FmtStd(s) == NearestHundredth(s, 0, 100 * MaxReward)

----------------------------------------------------------------------------
(* The fresh kernel, after the import cell *)

Init ==
  /\ bound = {}
  /\ test_layouts = <<>> /\ policy_weights = "" /\ value_weights = ""
  /\ N_RUNS = 0
  /\ env = NoEnv /\ obs_dim = 0 /\ act_dim = 0 /\ agent = NoAgent
  /\ results_greedy_cramped_room = <<>>
  /\ results_greedy = <<>> /\ results_sampling = <<>>
  /\ layout = "" /\ gif_path = "" /\ reward = 0 /\ rewards = <<>> /\ i = 0
  /\ mean_reward = NoMean /\ std_reward = NoStd
  /\ mean = NoMean /\ std = NoStd
  /\ cell = "none" /\ pc = "idle" /\ k = 0 /\ it = 0 /\ err = "none"
  /\ nexec = 0 /\ calls = <<>> /\ out = <<>>

\* a cell starts executing
Begin(c) ==
  /\ pc = "idle"
  /\ nexec < MaxExec
  /\ nexec' = nexec + 1
  /\ cell' = c /\ k' = 0 /\ it' = 0
  /\ calls' = <<>>

\* an evaluation cell starts executing
Start(c) ==
  /\ Begin(c)
  /\ err' = "none"
  /\ out' = <<>>

----------------------------------------------------------------------------
(* Cell "0. Testing the training on single layout cramped_room" *)

RunSingle ==
  /\ Start("single")
  /\ results_greedy_cramped_room' = <<>>
  /\ bound' = bound \cup {"results_greedy_cramped_room"}
  /\ pc' = "env"
  /\ UNCHANGED <<cfgv, objv, results_greedy, results_sampling, layout, gif_path,
                 reward, rewards, i, statv, repv>>

(* Cell "1. Generalization experiment: Greedy Evaluation" *)

RunGreedy ==
  /\ Start("greedy")
  /\ test_layouts' = TestLayouts
  /\ policy_weights' = PolicyWeights /\ value_weights' = ValueWeights
  /\ results_greedy' = <<>>
  /\ bound' = bound \cup {"test_layouts", "policy_weights", "value_weights",
                          "results_greedy"}
  /\ pc' = "for"
  /\ UNCHANGED <<N_RUNS, objv, results_greedy_cramped_room, results_sampling, layout,
                 gif_path, reward, rewards, i, statv, repv>>

(* Cell "2. Sampling Evaluation" *)

RunSamplingKeep ==
  /\ Start("sampling")
  /\ N_RUNS' = 10
  /\ bound' = bound \cup {"N_RUNS", "results_sampling"}
  /\ pc' = "for"
  /\ UNCHANGED <<test_layouts, policy_weights, value_weights, objv,
                 resv, layout, gif_path,
                 reward, rewards, i, statv, repv>>

RunSampling ==
  /\ Start("sampling")
  /\ N_RUNS' = 10
  /\ results_sampling' = <<>>
  /\ bound' = bound \cup {"N_RUNS", "results_sampling"}
  /\ pc' = "for"
  /\ UNCHANGED <<test_layouts, policy_weights, value_weights, objv,
                 results_greedy_cramped_room, results_greedy, layout, gif_path,
                 reward, rewards, i, statv, repv>>

\* the element the iterator over test_layouts yields at position pos
NextLayoutReversed(ls, pos) == ls[Len(ls) - pos]
NextLayout(ls, pos) == ls[pos + 1]

\* for layout in test_layouts: the next layout, or the end of the cell
ForLayout ==
  /\ pc = "for"
  /\ "test_layouts" \in bound
  /\ IF k < Len(test_layouts)
       THEN /\ k' = k + 1
            /\ layout' = NextLayout(test_layouts, k)
            /\ bound' = bound \cup {"layout"}
            /\ calls' = <<>>
            /\ pc' = "env"
       ELSE /\ pc' = "idle"
            /\ UNCHANGED <<k, layout, bound, calls>>
  /\ UNCHANGED <<cfgv, objv, resv, gif_path, reward, rewards, i, statv, repv,
                 cell, it, err, nexec, out>>

\* for layout in test_layouts, with test_layouts not bound
ForLayoutNameError ==
  /\ pc = "for"
  /\ "test_layouts" \notin bound
  /\ err' = "NameError"
  /\ pc' = "idle"
  /\ UNCHANGED <<bound, cfgv, objv, resv, layout, gif_path, reward, rewards, i,
                 statv, repv, cell, k, it, nexec, calls, out>>

----------------------------------------------------------------------------
(* Environment and agent for the layout: the same statements in the three
   evaluation cells *)

MakeEnv ==
  /\ pc = "env"
  /\ \E d \in ObsDims, a \in ActDims :
       /\ env' = GeneralizedOvercooked(Target, d, a, NewId)
       /\ obs_dim' = d
       /\ act_dim' = a
  /\ bound' = bound \cup {"env", "obs_dim", "act_dim"}
  /\ calls' = Append(calls, [op |-> "GeneralizedOvercooked", ok |-> TRUE, made |-> env'])
  /\ pc' = "agent"
  /\ UNCHANGED <<cfgv, agent, resv, layout, gif_path, reward, rewards, i, statv,
                 repv, cell, k, it, err, nexec, out>>

\* what follows the construction of the agent: the loading of its weights
AfterAgentSkipLoad == IF cell = "sampling" THEN "rewards" ELSE "eval"
AfterAgent == "load_policy"

MakeAgent ==
  /\ pc = "agent"
  /\ agent' = PPOAgent(obs_dim, act_dim, NewId)
  /\ bound' = bound \cup {"agent"}
  /\ calls' = Append(calls, [op |-> "PPOAgent", ok |-> TRUE, made |-> agent'])
  /\ pc' = AfterAgent
  /\ UNCHANGED <<cfgv, env, obs_dim, act_dim, resv, layout, gif_path, reward,
                 rewards, i, statv, repv, cell, k, it, err, nexec, out>>

LoadPolicy ==
  /\ pc = "load_policy"
  /\ agent' = [agent EXCEPT !.policy = PolicyPath]
  /\ calls' = Append(calls, [op |-> "policy.load_weights", ok |-> TRUE, made |-> agent'])
  /\ pc' = "load_value"
  /\ UNCHANGED <<bound, cfgv, env, obs_dim, act_dim, resv, layout, gif_path, reward,
                 rewards, i, statv, repv, cell, k, it, err, nexec, out>>

\* what follows the loading of the weights in the cell
AfterLoad == IF cell = "sampling" THEN "rewards" ELSE "eval"

LoadValue ==
  /\ pc = "load_value"
  /\ agent' = [agent EXCEPT !.value = ValuePath]
  /\ calls' = Append(calls, [op |-> "value.load_weights", ok |-> TRUE, made |-> agent'])
  /\ pc' = AfterLoad
  /\ UNCHANGED <<bound, cfgv, env, obs_dim, act_dim, resv, layout, gif_path, reward,
                 rewards, i, statv, repv, cell, k, it, err, nexec, out>>

\* the constructor or the load at this position raises
CallAt(p) ==
  CASE p = "env" -> "GeneralizedOvercooked"
    [] p = "agent" -> "PPOAgent"
    [] p = "load_policy" -> "policy.load_weights"
    [] p = "load_value" -> "value.load_weights"
    [] OTHER -> "evaluate_policy"

\* where the cell continues after an exception: nowhere
AfterRaiseContinue == "for"
AfterRaise == "idle"

RaiseSetup ==
  /\ pc \in {"env", "agent", "load_policy", "load_value"}
  /\ calls' = Append(calls, [op |-> CallAt(pc), ok |-> FALSE])
  /\ err' = CallAt(pc)
  /\ pc' = AfterRaise
  /\ UNCHANGED <<bound, cfgv, objv, resv, layout, gif_path, reward, rewards, i,
                 statv, repv, cell, k, it, nexec, out>>

\* the record of one call of evaluate_policy
RunCall(ag, en, greedy, save_gif, path, ok, ret) ==
  [op |-> "evaluate_policy", ok |-> ok, agent |-> ag, env |-> en,
   greedy |-> greedy, save_gif |-> save_gif, gif_path |-> path, ret |-> ret]

----------------------------------------------------------------------------
(* Greedy evaluation of the layout (single-layout cell and greedy sweep) *)

GreedyPath == IF cell = "single" THEN SingleGifPath ELSE GreedyGifPath(layout)

EvalGreedy ==
  /\ pc = "eval"
  /\ gif_path' = GreedyPath
  /\ \E r \in Rewards :
       /\ reward' = r
       /\ calls' = Append(calls, RunCall(agent, env, TRUE, TRUE, gif_path', TRUE, r))
  /\ bound' = bound \cup {"gif_path", "reward"}
  /\ pc' = "append"
  /\ UNCHANGED <<cfgv, objv, resv, layout, rewards, i, statv, repv, cell, k, it,
                 err, nexec, out>>

RaiseEvalGreedy ==
  /\ pc = "eval"
  /\ gif_path' = GreedyPath
  /\ bound' = bound \cup {"gif_path"}
  /\ calls' = Append(calls, RunCall(agent, env, TRUE, TRUE, gif_path', FALSE, 0))
  /\ err' = "evaluate_policy"
  /\ pc' = AfterRaise
  /\ UNCHANGED <<cfgv, objv, resv, layout, reward, rewards, i, statv, repv, cell,
                 k, it, nexec, out>>

GreedyEntry == <<Target, reward, gif_path>>

AppendGreedy ==
  /\ pc = "append"
  /\ cell \in {"single", "greedy"}
  /\ IF cell = "single"
       THEN /\ results_greedy_cramped_room' = Append(results_greedy_cramped_room, GreedyEntry)
            /\ pc' = "idle"
            /\ UNCHANGED results_greedy
       ELSE /\ results_greedy' = Append(results_greedy, GreedyEntry)
            /\ pc' = "for"
            /\ UNCHANGED results_greedy_cramped_room
  /\ UNCHANGED <<bound, cfgv, objv, results_sampling, layout, gif_path, reward,
                 rewards, i, statv, repv, cell, k, it, err, nexec, calls, out>>

----------------------------------------------------------------------------
(* Sampling evaluation of the layout *)

\* for i in range(N_RUNS): another run after done runs, or the statistics
AfterRunEarly(done) == "stats"
AfterRun(done) == IF done < N_RUNS THEN "run" ELSE "stats"

\* rewards = [] and the start of for i in range(N_RUNS)
InitRewards ==
  /\ pc = "rewards"
  /\ rewards' = <<>>
  /\ it' = 0
  /\ bound' = bound \cup {"rewards"}
  /\ pc' = AfterRun(0)
  /\ UNCHANGED <<cfgv, objv, resv, layout, gif_path, reward, i, statv, repv, cell,
                 k, err, nexec, calls, out>>

\* one iteration of the run loop
SampleRun ==
  /\ pc = "run"
  /\ i' = it
  /\ it' = it + 1
  /\ gif_path' = SamplingGifPath(layout, i')
  /\ \E r \in Rewards :
       /\ r # UsualReward => it >= N_RUNS - VaryingRuns
       /\ reward' = r
       /\ rewards' = Append(rewards, r)
       /\ calls' = Append(calls, RunCall(agent, env, FALSE, SamplingSaveGif(i'),
                                         gif_path', TRUE, r))
  /\ bound' = bound \cup {"i", "gif_path", "reward"}
  /\ pc' = AfterRun(it')
  /\ UNCHANGED <<cfgv, objv, resv, layout, statv, repv, cell, k, err, nexec, out>>

RaiseSampleRun ==
  /\ pc = "run"
  /\ i' = it
  /\ gif_path' = SamplingGifPath(layout, i')
  /\ bound' = bound \cup {"i", "gif_path"}
  /\ calls' = Append(calls, RunCall(agent, env, FALSE, SamplingSaveGif(i'),
                                    gif_path', FALSE, 0))
  /\ err' = "evaluate_policy"
  /\ pc' = AfterRaise
  /\ UNCHANGED <<cfgv, objv, resv, layout, reward, rewards, statv, repv, cell, k,
                 it, nexec, out>>

\* mean_reward = np.mean(rewards); std_reward = np.std(rewards)
ComputeStats ==
  /\ pc = "stats"
  /\ mean_reward' = np_mean(rewards)
  /\ std_reward' = np_std(rewards)
  /\ bound' = bound \cup {"mean_reward", "std_reward"}
  /\ pc' = "append"
  /\ UNCHANGED <<cfgv, objv, resv, layout, gif_path, reward, rewards, i, repv,
                 cell, k, it, err, nexec, calls, out>>

SamplingEntry == <<layout, mean_reward, std_reward, SamplingResultPath(layout)>>

AppendSampling ==
  /\ pc = "append"
  /\ cell = "sampling"
  /\ results_sampling' = Append(results_sampling, SamplingEntry)
  /\ pc' = "for"
  /\ UNCHANGED <<bound, cfgv, objv, results_greedy_cramped_room, results_greedy,
                 layout, gif_path, reward, rewards, i, statv, repv, cell, k, it,
                 err, nexec, calls, out>>

----------------------------------------------------------------------------
(* Report cells.  A report cell is executed from its first line to its last
   or to the exception that ends it.  A line of the table is kept as its
   fields: the layout column and the numbers as "{:.2f}" shows them, in
   hundredths. *)

Row(l, cols) == [kind |-> "row", layout |-> l, cols |-> cols]
Label(text) == [kind |-> "label", text |-> text]

\* the line printed above each GIF
SingleLabel == "Layout: cramped_room"
GreedyLabel(l) == "Layout: cramped_room"
SamplingLabel(l) == "Layout: " \o l

\* for ... in results: print the label, show_gif(gif_path)
GifLines(labels, paths) ==
  [m \in 1..(2 * Len(labels)) |->
     IF m % 2 = 1 THEN Label(labels[(m + 1) \div 2])
                  ELSE show_gif(paths[m \div 2])]

\* report of the single-layout cell: it prints the globals reward and gif_path
ShowSingle ==
  /\ Begin("show_single")
  /\ pc' = "idle"
  /\ IF "reward" \notin bound
       THEN out' = <<>> /\ err' = "NameError"
       ELSE LET head == <<Row("cramped_room", <<FmtInt(reward)>>), Label(SingleLabel)>>
            IN  IF "gif_path" \notin bound
                  THEN out' = head /\ err' = "NameError"
                  ELSE IF gif_path = None
                         THEN out' = head /\ err' = "TypeError"
                         ELSE out' = Append(head, show_gif(gif_path)) /\ err' = "none"
  /\ UNCHANGED <<bound, cfgv, objv, resv, layout, gif_path, reward, rewards, i,
                 statv, repv>>

\* report of the greedy sweep
ShowGreedy ==
  /\ Begin("show_greedy")
  /\ pc' = "idle"
  /\ IF "results_greedy" \notin bound
       THEN /\ out' = <<>> /\ err' = "NameError"
            /\ UNCHANGED <<bound, layout, reward, gif_path>>
       ELSE LET n == Len(results_greedy)
                labels == [j \in 1..n |-> GreedyLabel(results_greedy[j][1])]
                paths == [j \in 1..n |-> results_greedy[j][3]]
            IN  /\ out' = [j \in 1..n |-> Row(results_greedy[j][1],
                                              <<FmtInt(results_greedy[j][2])>>)]
                          \o GifLines(labels, paths)
                /\ err' = "none"
                /\ IF n > 0
                     THEN /\ layout' = results_greedy[n][1]
                          /\ reward' = results_greedy[n][2]
                          /\ gif_path' = results_greedy[n][3]
                          /\ bound' = bound \cup {"layout", "reward", "gif_path"}
                     ELSE UNCHANGED <<bound, layout, reward, gif_path>>
  /\ UNCHANGED <<cfgv, objv, resv, rewards, i, statv, repv>>

\* report of the sampling sweep
ShowSampling ==
  /\ Begin("show_sampling")
  /\ pc' = "idle"
  /\ IF "results_sampling" \notin bound
       THEN /\ out' = <<>> /\ err' = "NameError"
            /\ UNCHANGED <<bound, layout, mean, std, gif_path>>
       ELSE LET n == Len(results_sampling)
                labels == [j \in 1..n |-> SamplingLabel(results_sampling[j][1])]
                paths == [j \in 1..n |-> results_sampling[j][4]]
            IN  /\ out' = [j \in 1..n |-> Row(results_sampling[j][1],
                                              <<FmtMean(results_sampling[j][2]),
                                                FmtStd(results_sampling[j][3])>>)]
                          \o GifLines(labels, paths)
                /\ err' = "none"
                /\ IF n > 0
                     THEN /\ layout' = results_sampling[n][1]
                          /\ mean' = results_sampling[n][2]
                          /\ std' = results_sampling[n][3]
                          /\ gif_path' = results_sampling[n][4]
                          /\ bound' = bound \cup {"layout", "mean", "std", "gif_path"}
                     ELSE UNCHANGED <<bound, layout, mean, std, gif_path>>
  /\ UNCHANGED <<cfgv, objv, resv, reward, rewards, i, statv>>

----------------------------------------------------------------------------

Next ==
  \/ RunSingle \/ RunGreedy \/ RunSampling
  \/ ForLayout \/ ForLayoutNameError
  \/ MakeEnv \/ MakeAgent \/ LoadPolicy \/ LoadValue \/ RaiseSetup
  \/ EvalGreedy \/ RaiseEvalGreedy \/ AppendGreedy
  \/ InitRewards \/ SampleRun \/ RaiseSampleRun \/ ComputeStats \/ AppendSampling
  \/ ShowSingle \/ ShowGreedy \/ ShowSampling

Spec == Init /\ [][Next]_vars

----------------------------------------------------------------------------
(* The statistics on their own: the sampling cell has finished the runs of
   its first layout, with any number of runs from 1 to MaxRuns and any
   rewards; the only step is the computation of the statistics. *)

StatsInputs == UNION {[1..n -> Rewards] : n \in 1..MaxRuns}

InitStats ==
  \E r \in StatsInputs :
    LET l  == TestLayouts[1]
        en == GeneralizedOvercooked(l, CHOOSE d \in ObsDims : TRUE,
                                    CHOOSE a \in ActDims : TRUE, <<2, 1>>)
        a0 == PPOAgent(en.obs_dim, en.act_dim, <<2, 1>>)
        a1 == [a0 EXCEPT !.policy = PolicyWeights]
        a2 == [a1 EXCEPT !.value = ValueWeights]
    IN
    /\ bound = {"test_layouts", "policy_weights", "value_weights", "results_greedy",
                "N_RUNS", "results_sampling", "layout", "env", "obs_dim", "act_dim",
                "agent", "rewards", "i", "gif_path", "reward"}
    /\ test_layouts = TestLayouts
    /\ policy_weights = PolicyWeights /\ value_weights = ValueWeights
    /\ N_RUNS = Len(r)
    /\ env = en /\ obs_dim = en.obs_dim /\ act_dim = en.act_dim /\ agent = a2
    /\ results_greedy_cramped_room = <<>>
    /\ results_greedy = <<>> /\ results_sampling = <<>>
    /\ layout = l
    /\ gif_path = SamplingGifPath(l, Len(r) - 1)
    /\ reward = r[Len(r)] /\ rewards = r /\ i = Len(r) - 1
    /\ mean_reward = NoMean /\ std_reward = NoStd
    /\ mean = NoMean /\ std = NoStd
    /\ cell = "sampling" /\ pc = "stats" /\ k = 1 /\ it = Len(r) /\ err = "none"
    /\ nexec = 2
    /\ calls = <<[op |-> "GeneralizedOvercooked", ok |-> TRUE, made |-> en],
                 [op |-> "PPOAgent", ok |-> TRUE, made |-> a0],
                 [op |-> "policy.load_weights", ok |-> TRUE, made |-> a1],
                 [op |-> "value.load_weights", ok |-> TRUE, made |-> a2]>>
               \o [j \in 1..Len(r) |->
                     RunCall(a2, en, FALSE, SamplingSaveGif(j - 1),
                             SamplingGifPath(l, j - 1), TRUE, r[j])]
    /\ out = <<>>

NextStats == ComputeStats

SpecStats == InitStats /\ [][NextStats]_vars

----------------------------------------------------------------------------
(* What the claims read *)

\* the calls of evaluate_policy made for the layout being evaluated
Runs == SelectSeq(calls, LAMBDA e : e.op = "evaluate_policy")
OkRuns == SelectSeq(calls, LAMBDA e : e.op = "evaluate_policy" /\ e.ok)
Returned == [j \in 1..Len(OkRuns) |-> OkRuns[j].ret]
\* the constructions and loads that succeeded / the calls that raised
Done(name) == SelectSeq(calls, LAMBDA e : e.op = name /\ e.ok)
Raised == SelectSeq(calls, LAMBDA e : ~ e.ok)
Sweeping == cell \in {"greedy", "sampling"}
Evaluating == cell \in {"single", "greedy", "sampling"}
SweepResults == IF cell = "greedy" THEN results_greedy ELSE results_sampling
Finished == pc = "idle" /\ err = "none"
\* the layout the iteration in progress is for, from the input list
InputLayout == IF cell = "single" THEN "cramped_room" ELSE test_layouts[k]

SumSquares(r) == SumSeq([j \in 1..Len(r) |-> r[j] * r[j]])

----------------------------------------------------------------------------
(* C1: a sweep (greedy or sampling) that runs to completion leaves a result
   list with exactly one entry per layout of test_layouts, entry j carrying
   the layout at index j of test_layouts. *)
C1_SweepPreservesInputOrder ==
  (Sweeping /\ Finished) =>
    /\ Len(SweepResults) = Len(test_layouts)
    /\ \A j \in 1..Len(test_layouts) : SweepResults[j][1] = test_layouts[j]

C1_Witness ==
  /\ cell = "sampling" /\ Finished
  /\ Len(results_sampling) = 3 /\ Len(results_greedy) = 3

(* C2, as claimed: after a failure at layout index k the sweep goes on, so
   when the cell has ended every later layout has its entry. *)
C2_SweepContinuesAfterFailure ==
  (Sweeping /\ pc = "idle" /\ err \notin {"none", "NameError"}) =>
    \A j \in (k + 1)..Len(test_layouts) :
      \E m \in 1..Len(SweepResults) : SweepResults[m][1] = test_layouts[j]

(* C2, amended: a failure at layout index k ends the sweep cell; the result
   list then holds exactly the entries of the layouts before index k, in
   input order, and no entry for layout k or any later layout. *)
C2_FailureEndsSweep ==
  (Sweeping /\ pc = "idle" /\ err # "none") =>
    /\ Len(SweepResults) = (IF k = 0 THEN 0 ELSE k - 1)
    /\ \A j \in 1..Len(SweepResults) : SweepResults[j][1] = test_layouts[j]

C2_Witness ==
  /\ cell = "sampling" /\ pc = "idle" /\ err = "policy.load_weights"
  /\ k = 2 /\ Len(results_sampling) = 1

(* C3: the mean is the arithmetic mean and the standard deviation the
   population standard deviation (divisor N_RUNS) of the N_RUNS rewards; for
   one run the mean is that reward and the deviation 0 with a non-zero
   divisor; for <<2,2,2,2,2,2,2,2,2,20>> the mean is 3.8 and the deviation
   5.4 (its square 29.16). *)
C3_MeanAndPopulationStd ==
  (cell = "sampling" /\ pc = "append") =>
    LET n == Len(rewards)
        S == SumSeq(rewards)
        Q == SumSquares(rewards)
    IN  /\ n = N_RUNS
        /\ mean_reward.den # 0 /\ std_reward.sqden # 0
        /\ mean_reward.num * n = S * mean_reward.den
        /\ std_reward.sqnum * n * n = (n * Q - S * S) * std_reward.sqden
        /\ n = 1 => /\ mean_reward.num = rewards[1] * mean_reward.den
                    /\ std_reward.sqnum = 0
        /\ rewards = <<2, 2, 2, 2, 2, 2, 2, 2, 2, 20>> =>
             /\ 10 * mean_reward.num = 38 * mean_reward.den
             /\ 100 * std_reward.sqnum = 54 * 54 * std_reward.sqden

C3_Witness ==
  /\ pc = "append" /\ rewards = <<2, 2, 2, 2, 2, 2, 2, 2, 2, 20>>
  /\ "std_reward" \in bound

(* C4: of the calls of evaluate_policy made for one layout by the sampling
   cell, the first and only the first has save_gif set and a gif_path; there
   are never more than N_RUNS of them. *)
C4_CaptureOnlyRunZero ==
  cell = "sampling" =>
    LET runs == Runs
    IN  /\ Len(runs) <= N_RUNS
        /\ \A j \in 1..Len(runs) :
             /\ runs[j].save_gif <=> (j = 1)
             /\ (runs[j].gif_path # None) <=> (j = 1)
             /\ ~ runs[j].greedy

C4_Witness ==
  /\ cell = "sampling" /\ pc = "stats" /\ Len(OkRuns) = 10
  /\ OkRuns[1].save_gif /\ ~ OkRuns[10].save_gif

(* C5: for the layout being evaluated at most one environment and one agent
   are constructed; every episode run of the layout is given that environment
   and that agent, and the environment is the one of this layout. *)
C5_OnePairPerLayout ==
  Evaluating =>
    LET runs   == Runs
        envs   == Done("GeneralizedOvercooked")
        agents == Done("PPOAgent")
    IN  /\ Len(envs) <= 1
        /\ Len(agents) <= 1
        /\ \A j \in 1..Len(runs) :
             /\ Len(envs) = 1
             /\ Len(agents) = 1
             /\ runs[j].env = envs[1].made
             /\ runs[j].env.layout = InputLayout
             /\ runs[j].agent.id = agents[1].made.id

C5_Witness ==
  /\ cell = "sampling" /\ k = 3 /\ Len(OkRuns) = 10
  /\ Len(Done("GeneralizedOvercooked")) = 1

(* C6: every episode run comes after the construction of the environment, of
   an agent with the environment's dimensions, and after both loads of
   weights; when a construction or a load raises, no episode is run for that
   layout. *)
C6_SetupBeforeAnyRun ==
  Evaluating =>
    /\ \A p \in 1..Len(calls) :
         calls[p].op = "evaluate_policy" =>
           /\ \E q \in 1..(p - 1) : /\ calls[q].op = "GeneralizedOvercooked" /\ calls[q].ok
                                    /\ calls[q].made = calls[p].env
           /\ \E q \in 1..(p - 1) : /\ calls[q].op = "PPOAgent" /\ calls[q].ok
                                    /\ calls[q].made.id = calls[p].agent.id
           /\ \E q \in 1..(p - 1) : calls[q].op = "policy.load_weights" /\ calls[q].ok
           /\ \E q \in 1..(p - 1) : calls[q].op = "value.load_weights" /\ calls[q].ok
           /\ calls[p].agent.obs_dim = calls[p].env.obs_dim
           /\ calls[p].agent.act_dim = calls[p].env.act_dim
           /\ calls[p].agent.policy # "" /\ calls[p].agent.value # ""
    /\ (\E p \in 1..Len(calls) : calls[p].op # "evaluate_policy" /\ ~ calls[p].ok)
         => Runs = <<>>

C6_Witness ==
  /\ cell = "sampling" /\ pc = "idle" /\ err = "value.load_weights" /\ k = 2
  /\ Runs = <<>> /\ Len(results_sampling) = 1

(* C7: in the sampling sweep the result list never holds an entry for a
   layout whose runs are not all finished: an entry for the layout being
   evaluated exists only with N_RUNS runs of it returned, and it is the
   statistics of their rewards; after a run raised there is none. *)
C7_NoPartialAggregate ==
  (cell = "sampling" /\ k >= 1) =>
    /\ Len(results_sampling) \in {k - 1, k}
    /\ Len(results_sampling) = k =>
         LET returned == Returned
         IN  /\ Len(returned) = N_RUNS /\ Raised = <<>>
             /\ results_sampling[k][1] = test_layouts[k]
             /\ results_sampling[k][2] = np_mean(returned)
             /\ results_sampling[k][3] = np_std(returned)
    /\ Raised # <<>> => Len(results_sampling) = k - 1

C7_Witness ==
  /\ cell = "sampling" /\ pc = "idle" /\ err = "evaluate_policy" /\ k = 2
  /\ Len(OkRuns) = 9 /\ Len(results_sampling) = 1

(* C8, as claimed: the path stored in the entry of a layout is the gif_path
   that was given to evaluate_policy for run 0 of that layout. *)
C8_StoredPathIsRunZeroPath ==
  (cell = "sampling" /\ k >= 1 /\ Len(results_sampling) = k) =>
    results_sampling[k][4] = Runs[1].gif_path

(* C9, as claimed: every line the report cells emit for an entry names the
   layout of that entry and shows the values of that entry. *)
C9_ReportNamesEntryLayout ==
  /\ (cell = "show_greedy" /\ err = "none") =>
       \A j \in 1..Len(results_greedy) :
         /\ out[j] = Row(results_greedy[j][1], <<FmtInt(results_greedy[j][2])>>)
         /\ out[Len(results_greedy) + 2 * j - 1]
              = Label("Layout: " \o results_greedy[j][1])
  /\ (cell = "show_sampling" /\ err = "none") =>
       \A j \in 1..Len(results_sampling) :
         /\ out[j] = Row(results_sampling[j][1],
                         <<FmtMean(results_sampling[j][2]),
                           FmtStd(results_sampling[j][3])>>)
         /\ out[Len(results_sampling) + 2 * j - 1]
              = Label("Layout: " \o results_sampling[j][1])

(* C10: a sweep executed again starts from an empty result list and each
   layout from an empty reward list: while a sweep cell is executed its
   result list holds entries of this execution only (never more than the
   layouts reached), the reward list holds exactly the rewards returned by
   the runs of the layout in progress, and a finished sweep has one entry per
   layout. *)
C10_RecomputedFromScratch ==
  /\ Sweeping =>
       /\ Len(SweepResults) <= k
       /\ Finished => Len(SweepResults) = Len(test_layouts)
  /\ (cell = "sampling" /\ pc \in {"run", "stats", "append"}) => rewards = Returned
  /\ (cell = "greedy" /\ k >= 1 /\ Len(results_greedy) = k) =>
       results_greedy[k] = <<test_layouts[k], OkRuns[1].ret, OkRuns[1].gif_path>>

C10_Witness ==
  /\ cell = "sampling" /\ pc = "run" /\ it = 0 /\ k = 1
  /\ rewards = <<>> /\ results_sampling = <<>>
  /\ "mean_reward" \in bound /\ "std_reward" \in bound

====
